---- MODULE Spec2Model ----
(***************************************************************************)
(* A model of src/source/register_files_to_profile.cpp: the process-wide   *)
(* PyStringPtrList filter (constructor, should_trace, setInstance,         *)
(* getInstance), the stack walk getPythonInfo and the registration entry   *)
(* point register_files_to_profile.                                        *)
(*                                                                         *)
(* C strings are TLA+ strings and strstr is a character-level substring    *)
(* search.  The file system seen by realpath() is the table Realpath.      *)
(***************************************************************************)
EXTENDS Integers, Sequences, FiniteSets, TLC

(***************************************************************************)
(* Bounds of the model.                                                    *)
(***************************************************************************)
\* deepest call stack a sample is taken on
MaxDepth == 3
\* number of PyStringPtrList objects ever constructed
MaxRegs == 2
\* longest fragment list passed to register_files_to_profile
MaxFrags == 1

(***************************************************************************)
(* Threads, null values.                                                   *)
(***************************************************************************)
Samplers == {"s1", "s2"}
Main == "main"
NoThread == "none"
NULL == 0

(***************************************************************************)
(* String helpers of the C library.                                        *)
(***************************************************************************)
\* strstr(haystack, needle) != NULL
strstr(h, n) ==
  \E i \in 1..(Len(h) - Len(n) + 1) : SubSeq(h, i, i + Len(n) - 1) = n

\* *s == c
FirstCharIs(s, c) == Len(s) > 0 /\ SubSeq(s, 1, 1) = c

(***************************************************************************)
(* The inputs: file names, fragments, base paths.                          *)
(***************************************************************************)
F_empty   == ""
F_lib     == "/x/site-packages/myproj/mod.py"
F_stdlib  == "/usr/lib/python3.9/os.py"
F_ipy     == "<ipython-input-3-abcd>"
F_ipylib  == "<ipython-input-3>/site-packages/x"
F_synth   == "<string>"
F_self    == "/home/u/project/scalene/scalene/myproj.py"
F_ipyself == "<ipython-input-4>scalene/scalene"
F_pydir   == "/opt/python/tool.py"
F_frag    == "/srv/myproj/mod.py"
F_app     == "/home/u/project/app.py"
F_other   == "/tmp/other/a.py"
F_gone    == "/gone/x.py"
F_link    == "/tmp/link.py"
F_out     == "/home/u/project/out.py"

FileNames == {F_empty, F_lib, F_stdlib, F_ipy, F_ipylib, F_synth, F_self,
              F_ipyself, F_pydir, F_frag, F_app, F_other, F_gone, F_link,
              F_out}

Fragments == {"myproj", "tool"}
BasePaths == {"/home/u/project", "/tmp/other"}

\* Texts with a character above 127 (written here with its escape): a
\* fragment and a base path that have no ASCII encoding
U_frag == "proj\\u00e9"
U_base == "/home/u/caf\\u00e9"
NonASCII == {U_frag, U_base}
FragmentArgs == Fragments \cup {U_frag}
BasePathArgs == BasePaths \cup {U_base}

\* The Python str object of a text
Str(s) == [str |-> s, ascii |-> s \notin NonASCII]

\* realpath(filename, resolved_path): the canonical path, or failure (ENOENT).
\* F_link is a symbolic link into the project, F_out one that leaves it;
\* F_frag and F_gone do not exist.
Realpath(f) ==
  CASE f = F_app   -> [ok |-> TRUE, path |-> F_app]
    [] f = F_other -> [ok |-> TRUE, path |-> F_other]
    [] f = F_pydir -> [ok |-> TRUE, path |-> F_pydir]
    [] f = F_self  -> [ok |-> TRUE, path |-> F_self]
    [] f = F_link  -> [ok |-> TRUE, path |-> "/home/u/project/b.py"]
    [] f = F_out   -> [ok |-> TRUE, path |-> "/var/data/out.py"]
    [] OTHER       -> [ok |-> FALSE, path |-> ""]

(***************************************************************************)
(* PyStringPtrList                                                         *)
(***************************************************************************)
\* The second argument of register_files_to_profile: a list of str, or an
\* object that is not a list.
NotAList == [is_list |-> FALSE, elems |-> <<>>]
ListOf(s) == [is_list |-> TRUE, elems |-> s]
ListArgs ==
  {NotAList} \cup
  {ListOf(s) : s \in UNION {[1..n -> FragmentArgs] : n \in 0..MaxFrags}}

\* The scope arguments of the registrations that samples are taken under
WalkLists == {NotAList, ListOf(<<>>), ListOf(<<"myproj">>)}

PyList_Check(o) == o.is_list
\* PyList_Size: -1 (with an error set) when the object is not a list
PyList_Size(o) == IF o.is_list THEN Len(o.elems) ELSE -1

\* PyUnicode_AsASCIIString: a bytes object, or NULL
PyUnicode_AsASCIIString(u) ==
  IF u.ascii THEN [null |-> FALSE, bytes |-> u.str]
             ELSE [null |-> TRUE, bytes |-> ""]

\* PyBytes_AsString: the characters of a bytes object.  It reads the type of
\* its argument first, so a NULL argument is a read at address 8 and the
\* process is killed by the fault.
PyBytes_AsString(b) ==
  IF b.null THEN [fault |-> TRUE, chars |-> ""]
            ELSE [fault |-> FALSE, chars |-> b.bytes]

\* The constructor.  items.reserve(size) with size = -1 asks for more than
\* max_size() elements and throws std::length_error; nothing between the
\* constructor and the interpreter catches it, so the process terminates.
\* Each item and the base path go through PyUnicode_AsASCIIString and
\* PyBytes_AsString with no test in between.  Otherwise the object holds the
\* fragments in list order and the base path.
PyStringPtrList(list_wrapper, base_path, profile_all_b) ==
  LET item(i) ==
        PyBytes_AsString(PyUnicode_AsASCIIString(Str(list_wrapper.elems[i])))
      base == PyBytes_AsString(PyUnicode_AsASCIIString(Str(base_path)))
  IN
  IF PyList_Size(list_wrapper) < 0
    THEN [thrown |-> TRUE, fault |-> FALSE, obj |-> <<>>]
  ELSE IF (\E i \in 1..PyList_Size(list_wrapper) : item(i).fault) \/ base.fault
    THEN [thrown |-> FALSE, fault |-> TRUE, obj |-> <<>>]
    ELSE [thrown |-> FALSE, fault |-> FALSE,
          obj |-> [owner |-> TRUE,
                   items |-> [i \in 1..PyList_Size(list_wrapper) |->
                                item(i).chars],
                   scalene_base_path |-> base.chars,
                   profile_all |-> profile_all_b]]

\* Variant: the fragment loop runs before the library rule
should_trace_fragments_first(self, filename) ==
  IF self.owner /\ \E i \in 1..Len(self.items) :
                      strstr(filename, self.items[i])
    THEN [ret |-> "true", resolved |-> FALSE]
  ELSE IF strstr(filename, "site-packages") \/ strstr(filename, "/lib/python")
    THEN [ret |-> "false", resolved |-> FALSE]
  ELSE IF FirstCharIs(filename, "<") /\ strstr(filename, "<ipython")
    THEN [ret |-> "true", resolved |-> FALSE]
  ELSE IF strstr(filename, "scalene/scalene")
    THEN [ret |-> "false", resolved |-> FALSE]
  ELSE IF ~Realpath(filename).ok
    THEN [ret |-> "abort", resolved |-> TRUE]
  ELSE IF strstr(Realpath(filename).path, self.scalene_base_path)
    THEN [ret |-> "true", resolved |-> TRUE]
    ELSE [ret |-> "false", resolved |-> TRUE]

\* Variant: the rule for the profiler's own files is missing
should_trace_no_self_rule(self, filename) ==
  IF strstr(filename, "site-packages") \/ strstr(filename, "/lib/python")
    THEN [ret |-> "false", resolved |-> FALSE]
  ELSE IF FirstCharIs(filename, "<") /\ strstr(filename, "<ipython")
    THEN [ret |-> "true", resolved |-> FALSE]
  ELSE IF self.owner /\ \E i \in 1..Len(self.items) :
                           strstr(filename, self.items[i])
    THEN [ret |-> "true", resolved |-> FALSE]
  ELSE IF ~Realpath(filename).ok
    THEN [ret |-> "abort", resolved |-> TRUE]
  ELSE IF strstr(Realpath(filename).path, self.scalene_base_path)
    THEN [ret |-> "true", resolved |-> TRUE]
    ELSE [ret |-> "false", resolved |-> TRUE]

\* Variant: realpath is called before the fragment loop
should_trace_resolve_first(self, filename) ==
  IF strstr(filename, "site-packages") \/ strstr(filename, "/lib/python")
    THEN [ret |-> "false", resolved |-> FALSE]
  ELSE IF FirstCharIs(filename, "<") /\ strstr(filename, "<ipython")
    THEN [ret |-> "true", resolved |-> FALSE]
  ELSE IF strstr(filename, "scalene/scalene")
    THEN [ret |-> "false", resolved |-> FALSE]
  ELSE IF ~Realpath(filename).ok
    THEN [ret |-> "abort", resolved |-> TRUE]
  ELSE IF self.owner /\ \E i \in 1..Len(self.items) :
                           strstr(filename, self.items[i])
    THEN [ret |-> "true", resolved |-> TRUE]
  ELSE IF strstr(Realpath(filename).path, self.scalene_base_path)
    THEN [ret |-> "true", resolved |-> TRUE]
    ELSE [ret |-> "false", resolved |-> TRUE]

\* Variant: the base path is looked for in the file name as given
should_trace_unresolved_test(self, filename) ==
  IF strstr(filename, "site-packages") \/ strstr(filename, "/lib/python")
    THEN [ret |-> "false", resolved |-> FALSE]
  ELSE IF FirstCharIs(filename, "<") /\ strstr(filename, "<ipython")
    THEN [ret |-> "true", resolved |-> FALSE]
  ELSE IF strstr(filename, "scalene/scalene")
    THEN [ret |-> "false", resolved |-> FALSE]
  ELSE IF self.owner /\ \E i \in 1..Len(self.items) :
                           strstr(filename, self.items[i])
    THEN [ret |-> "true", resolved |-> FALSE]
  ELSE IF ~Realpath(filename).ok
    THEN [ret |-> "abort", resolved |-> TRUE]
  ELSE IF strstr(filename, self.scalene_base_path)
    THEN [ret |-> "true", resolved |-> TRUE]
    ELSE [ret |-> "false", resolved |-> TRUE]

\* Variant: a file that cannot be resolved is taken as not traceable
should_trace_degrade(self, filename) ==
  IF strstr(filename, "site-packages") \/ strstr(filename, "/lib/python")
    THEN [ret |-> "false", resolved |-> FALSE]
  ELSE IF FirstCharIs(filename, "<") /\ strstr(filename, "<ipython")
    THEN [ret |-> "true", resolved |-> FALSE]
  ELSE IF strstr(filename, "scalene/scalene")
    THEN [ret |-> "false", resolved |-> FALSE]
  ELSE IF self.owner /\ \E i \in 1..Len(self.items) :
                           strstr(filename, self.items[i])
    THEN [ret |-> "true", resolved |-> FALSE]
  ELSE IF ~Realpath(filename).ok
    THEN [ret |-> "false", resolved |-> TRUE]
  ELSE IF strstr(Realpath(filename).path, self.scalene_base_path)
    THEN [ret |-> "true", resolved |-> TRUE]
    ELSE [ret |-> "false", resolved |-> TRUE]

\* should_trace(filename): "true", "false", or "abort" when realpath fails;
\* resolved tells whether realpath was called.
should_trace(self, filename) ==
  IF strstr(filename, "site-packages") \/ strstr(filename, "/lib/python")
    THEN [ret |-> "false", resolved |-> FALSE]
  ELSE IF FirstCharIs(filename, "<") /\ strstr(filename, "<ipython")
    THEN [ret |-> "true", resolved |-> FALSE]
  ELSE IF strstr(filename, "scalene/scalene")
    THEN [ret |-> "false", resolved |-> FALSE]
  ELSE IF self.owner /\ \E i \in 1..Len(self.items) :
                           strstr(filename, self.items[i])
    THEN [ret |-> "true", resolved |-> FALSE]
  ELSE IF ~Realpath(filename).ok
    THEN [ret |-> "abort", resolved |-> TRUE]
  ELSE IF strstr(Realpath(filename).path, self.scalene_base_path)
    THEN [ret |-> "true", resolved |-> TRUE]
    ELSE [ret |-> "false", resolved |-> TRUE]

\* Variant: an installed filter is not replaced
setInstance_keep_first(cur, new) == IF cur = NULL THEN new ELSE cur

\* setInstance: the value of _instance after the call
setInstance(cur, new) == new

\* Variant: the object _instance points to is left allocated
delete_leak(objects, p) == objects

\* delete p: the objects that are left
delete(objects, p) == objects \ {p}

\* getInstance: the value returned
getInstance(cur) == cur

\* Variant: PyGILState_Ensure comes back without the GIL
PyGILState_Ensure_noop(holder, t) == holder

\* GIL(): PyGILState_Ensure, the holder of the GIL once thread t has it
PyGILState_Ensure(holder, t) == t

\* Variant: the GIL stays with the thread
PyGILState_Release_leak(holder, t) == holder

\* ~GIL(): PyGILState_Release, the holder of the GIL once thread t gave it up
PyGILState_Release(holder, t) == NoThread

(***************************************************************************)
(* Frames and stacks                                                       *)
(***************************************************************************)
\* A frame: the unicode object co_filename (ascii tells whether it encodes
\* as ASCII), the last instruction f_lasti and the first line of its code.
Frame(s, a, l, n) ==
  [co_filename |-> [str |-> s, ascii |-> a], f_lasti |-> l,
   co_firstlineno |-> n]

Frames == {Frame(F_lib, TRUE, 2, 10),
           Frame(F_app, TRUE, 6, 20),
           Frame(F_frag, TRUE, 4, 30),
           Frame(F_empty, TRUE, 0, 1),
           Frame(F_synth, TRUE, 2, 1),
           Frame("/home/u/project/caf.py", FALSE, 4, 50)}

\* innermost frame first
Stacks == UNION {[1..n -> Frames] : n \in 0..MaxDepth}

\* PyCode_Addr2Line: two bytes of code per line
PyCode_Addr2Line(frame, bytei) == frame.co_firstlineno + (bytei \div 2)

\* Variant: the walk starts at the outermost frame
PyEval_GetFrame_outermost(s) == IF Len(s) = 0 THEN NULL ELSE Len(s)

\* PyEval_GetFrame: the innermost frame (an index into the stack), or NULL
PyEval_GetFrame(s) == IF Len(s) = 0 THEN NULL ELSE 1

\* Variant: a frame that is its own caller
f_back_self(s, i) == i

\* frame->f_back
f_back(s, i) == IF i < Len(s) THEN i + 1 ELSE NULL

\* The test of line 173: TRUE when the filter is to be consulted
PassesCheapTest(filenameStr) ==
  /\ ~strstr(filenameStr, "<")
  /\ ~strstr(filenameStr, "/python")
  /\ ~strstr(filenameStr, "scalene/scalene")

\* Variant: a frame that cannot be decoded is skipped
FrameStep_skip_unreadable(frame) ==
  LET encoded == PyUnicode_AsASCIIString(frame.co_filename) IN
    IF encoded.null THEN "skip"
    ELSE IF Len(encoded.bytes) = 0 THEN "skip"
    ELSE IF PassesCheapTest(encoded.bytes) THEN "consult"
    ELSE "skip"

\* Variant: an empty file name ends the walk
FrameStep_empty_unreadable(frame) ==
  LET encoded == PyUnicode_AsASCIIString(frame.co_filename) IN
    IF encoded.null THEN "unreadable"
    ELSE IF Len(encoded.bytes) = 0 THEN "unreadable"
    ELSE IF PassesCheapTest(encoded.bytes) THEN "consult"
    ELSE "skip"

\* What the loop body does with one frame, up to the call of getInstance:
\* "unreadable" (return 0), "skip" (continue) or "consult".
FrameStep(frame) ==
  LET encoded == PyUnicode_AsASCIIString(frame.co_filename) IN
    IF encoded.null THEN "unreadable"
    ELSE IF Len(encoded.bytes) = 0 THEN "skip"
    ELSE IF PassesCheapTest(encoded.bytes) THEN "consult"
    ELSE "skip"

\* Variant: the pointer is used without the null test
HasFilter_always(p) == TRUE

\* if (auto py_string_ptr_list = PyStringPtrList::getInstance())
HasFilter(p) == p # NULL

\* The file name of a frame as the walk reads it
NameOf(frame) == PyUnicode_AsASCIIString(frame.co_filename).bytes

Bogus == [filename |-> "<BOGUS>", lineno |-> 1, bytei |-> 0]
Location(frame) ==
  [filename |-> frame.co_filename.str,
   lineno |-> PyCode_Addr2Line(frame, frame.f_lasti),
   bytei |-> frame.f_lasti]

\* The caller's variables between calls
Fresh == [filename |-> "", lineno |-> 0, bytei |-> 0]

\* Values the caller's variables may hold when it calls
CallerValues == {[filename |-> "", lineno |-> 0, bytei |-> 0],
                 [filename |-> "stale.py", lineno |-> 7, bytei |-> 4]}

\* The whole loop of getPythonInfo from frame i on, when getInstance
\* returns NULL (has = FALSE) or the filter filt at every frame: the value
\* returned and the caller's variables, ret = -1 for abort().
RECURSIVE Walk(_, _, _, _)
Walk(s, i, has, filt) ==
  IF i = NULL THEN [ret |-> 0, out |-> Bogus]
  ELSE LET frame == s[i]
           step == FrameStep(frame) IN
    IF step = "unreadable" THEN [ret |-> 0, out |-> Bogus]
    ELSE IF step = "skip" THEN Walk(s, f_back(s, i), has, filt)
    ELSE IF ~has THEN Walk(s, f_back(s, i), has, filt)
    ELSE LET r == should_trace(filt, NameOf(frame)).ret IN
      IF r = "abort" THEN [ret |-> -1, out |-> Bogus]
      ELSE IF r = "true" THEN [ret |-> 1, out |-> Location(frame)]
      ELSE Walk(s, f_back(s, i), has, filt)

(***************************************************************************)
(* State                                                                   *)
(***************************************************************************)
VARIABLES
  initialized,  \* Py_IsInitialized()
  tstate,       \* threads with an interpreter thread state
  gil,          \* holder of the GIL
  mutex,        \* holder of _instanceMutex
  instance,     \* _instance: index into heap, or NULL
  heap,         \* every PyStringPtrList constructed so far
  live,         \* the ones not deleted
  pyerr,        \* the error indicator of the registering thread
  aborted,      \* the process was torn down by abort()/terminate()
  rpc,          \* position of the registering thread
  rargs,        \* arguments of the running or last registration
  rnew,         \* object constructed by the running registration
  rret,         \* what the last registration returned
  rprev,        \* _instance when the running or last registration began
  pc,           \* position of each sampling thread
  stack,        \* the Python stack of the thread during the call
  fidx,         \* the frame the walk is at
  inst,         \* the pointer getInstance returned for this frame
  out,          \* the caller's filename, lineno, bytei
  ret,          \* return value of the last getPythonInfo
  walked,       \* the last call went past the early return
  examined,     \* frames the walk decoded
  consulted,    \* frames should_trace was called for
  hit,          \* the frame returned, or NULL
  winst,        \* _instance when the walk took the GIL
  wgen,         \* number of filters constructed when the walk took the GIL
  q             \* the last direct call of should_trace

rvars == <<rpc, rargs, rnew, rret, rprev, pyerr>>
fvars == <<instance, heap, live, mutex>>
svars == <<pc, stack, fidx, inst, out, ret, walked, examined, consulted, hit,
           winst, wgen>>
vars == <<initialized, tstate, gil, aborted, rvars, fvars, svars, q>>

NoArgs == [a_list |-> NotAList, base_path |-> "", profile_all |-> FALSE,
           parsed |-> FALSE]
NoQuery == [called |-> FALSE, fn |-> "", ret |-> "none", resolved |-> FALSE,
            on |-> NULL]

Init ==
  /\ initialized = FALSE
  /\ tstate = {}
  /\ gil = NoThread
  /\ mutex = NoThread
  /\ instance = NULL
  /\ heap = <<>>
  /\ live = {}
  /\ pyerr = FALSE
  /\ aborted = FALSE
  /\ rpc = "idle"
  /\ rargs = NoArgs
  /\ rnew = NULL
  /\ rret = "none"
  /\ rprev = NULL
  /\ pc = [t \in Samplers |-> IF t = "s1" THEN "idle" ELSE "off"]
  /\ stack = [t \in Samplers |-> <<>>]
  /\ fidx = [t \in Samplers |-> NULL]
  /\ inst = [t \in Samplers |-> NULL]
  /\ out = [t \in Samplers |-> Fresh]
  /\ ret = [t \in Samplers |-> 0]
  /\ walked = [t \in Samplers |-> FALSE]
  /\ examined = [t \in Samplers |-> {}]
  /\ consulted = [t \in Samplers |-> {}]
  /\ hit = [t \in Samplers |-> NULL]
  /\ winst = [t \in Samplers |-> NULL]
  /\ wgen = [t \in Samplers |-> 0]
  /\ q = NoQuery

(***************************************************************************)
(* The host runtime                                                        *)
(***************************************************************************)
\* Py_Initialize
Py_Initialize ==
  /\ ~aborted /\ ~initialized
  /\ initialized' = TRUE
  /\ UNCHANGED <<tstate, gil, aborted, rvars, fvars, svars, q>>

\* a thread gets an interpreter thread state
AttachThread(t) ==
  /\ ~aborted /\ initialized /\ pc[t] = "idle"
  /\ t \notin tstate
  /\ tstate' = tstate \cup {t}
  /\ UNCHANGED <<initialized, gil, aborted, rvars, fvars, svars, q>>

(***************************************************************************)
(* register_files_to_profile                                               *)
(***************************************************************************)
\* Entry, argument parsing, the list check and the constructor, for a scope
\* argument drawn from lists and the flag p.
RegisterCall(lists, bases, p) ==
  /\ ~aborted /\ initialized /\ rpc = "idle" /\ gil = NoThread
  /\ Len(heap) < MaxRegs
  /\ \E a \in lists, b \in bases, parsed \in BOOLEAN :
       LET c == PyStringPtrList(a, b, p) IN
       /\ rargs' = [a_list |-> a, base_path |-> b, profile_all |-> p,
                    parsed |-> parsed]
       /\ rprev' = instance
       /\ gil' = Main
       /\ IF ~parsed
            THEN /\ pyerr' = TRUE
                 /\ rret' = "NULL"
                 /\ rpc' = "ret"
                 /\ UNCHANGED <<rnew, heap, live, aborted>>
          ELSE IF c.thrown \/ c.fault
            THEN /\ pyerr' = TRUE
                 /\ aborted' = TRUE
                 /\ rpc' = "new"
                 /\ UNCHANGED <<rnew, rret, heap, live>>
          ELSE   /\ pyerr' = (pyerr \/ ~PyList_Check(a))
                 /\ heap' = Append(heap, c.obj)
                 /\ rnew' = Len(heap) + 1
                 /\ live' = live \cup {Len(heap) + 1}
                 /\ rpc' = "lock"
                 /\ UNCHANGED <<rret, aborted>>
  /\ UNCHANGED <<initialized, tstate, instance, mutex, svars, q>>

\* setInstance: std::lock_guard g(_instanceMutex)
SetInstanceLock ==
  /\ ~aborted /\ rpc = "lock" /\ mutex = NoThread
  /\ mutex' = Main
  /\ rpc' = "delete"
  /\ UNCHANGED <<initialized, tstate, gil, aborted, rargs, rnew, rret, rprev,
                 pyerr, instance, heap, live, svars, q>>

\* setInstance: delete _instance
SetInstanceDelete ==
  /\ ~aborted /\ rpc = "delete"
  /\ live' = delete(live, instance)
  /\ rpc' = "assign"
  /\ UNCHANGED <<initialized, tstate, gil, aborted, rargs, rnew, rret, rprev,
                 pyerr, instance, heap, mutex, svars, q>>

\* setInstance: _instance = instance, and the guard's release
SetInstanceAssign ==
  /\ ~aborted /\ rpc = "assign"
  /\ instance' = setInstance(instance, rnew)
  /\ mutex' = NoThread
  /\ rret' = "None"
  /\ rpc' = "ret"
  /\ UNCHANGED <<initialized, tstate, gil, aborted, rargs, rnew, rprev,
                 pyerr, heap, live, svars, q>>

\* The return to the interpreter, which later gives up the GIL
RegisterReturn ==
  /\ ~aborted /\ rpc = "ret"
  /\ gil' = NoThread
  /\ rpc' = "idle"
  /\ pyerr' = FALSE
  /\ UNCHANGED <<initialized, tstate, aborted, rargs, rnew, rret, rprev,
                 fvars, svars, q>>

(***************************************************************************)
(* getPythonInfo                                                           *)
(***************************************************************************)
\* Entry: the early return, which leaves the caller's variables as they are,
\* or the sentinel assignments of lines 155-157
GetPythonInfoCall(t) ==
  /\ ~aborted /\ pc[t] = "idle"
  /\ UNCHANGED <<examined, consulted, hit, winst, wgen, inst, fidx>>
  /\ IF ~initialized \/ t \notin tstate
       THEN /\ ret' = [ret EXCEPT ![t] = 0]
            /\ pc' = [pc EXCEPT ![t] = "returned"]
            /\ walked' = [walked EXCEPT ![t] = FALSE]
            /\ stack' = [stack EXCEPT ![t] = <<>>]
            /\ \E v \in CallerValues : out' = [out EXCEPT ![t] = v]
       ELSE /\ stack' = [stack EXCEPT ![t] = <<>>]
            /\ out' = [out EXCEPT ![t] = Bogus]
            /\ walked' = [walked EXCEPT ![t] = TRUE]
            /\ pc' = [pc EXCEPT ![t] = "gil"]
            /\ ret' = [ret EXCEPT ![t] = 0]
  /\ UNCHANGED <<initialized, tstate, gil, aborted, rvars, fvars, q>>

\* Variant: the thread goes on without waiting for the GIL to be free
AcquireOn_nowait(t, stacks) ==
  /\ ~aborted /\ pc[t] = "gil"
  /\ gil' = PyGILState_Ensure(gil, t)
  /\ \E s \in stacks :
       /\ stack' = [stack EXCEPT ![t] = s]
       /\ fidx' = [fidx EXCEPT ![t] = PyEval_GetFrame(s)]
  /\ pc' = [pc EXCEPT ![t] = "walk"]
  /\ winst' = [winst EXCEPT ![t] = instance]
  /\ wgen' = [wgen EXCEPT ![t] = Len(heap)]
  /\ UNCHANGED <<initialized, tstate, aborted, rvars, fvars, inst, out,
                 ret, walked, examined, consulted, hit, q>>

\* GIL gil: PyGILState_Ensure, then PyEval_GetFrame on the stack the thread
\* has at that moment, one of stacks
AcquireOn(t, stacks) ==
  /\ ~aborted /\ pc[t] = "gil" /\ gil = NoThread
  /\ gil' = PyGILState_Ensure(gil, t)
  /\ \E s \in stacks :
       /\ stack' = [stack EXCEPT ![t] = s]
       /\ fidx' = [fidx EXCEPT ![t] = PyEval_GetFrame(s)]
  /\ pc' = [pc EXCEPT ![t] = "walk"]
  /\ winst' = [winst EXCEPT ![t] = instance]
  /\ wgen' = [wgen EXCEPT ![t] = Len(heap)]
  /\ UNCHANGED <<initialized, tstate, aborted, rvars, fvars, inst, out,
                 ret, walked, examined, consulted, hit, q>>

AcquireGIL(t) == AcquireOn(t, Stacks)

\* One turn of the loop up to getInstance.  A return statement sets the
\* value returned; the destructor of gil runs after it (Return).
WalkStep(t) ==
  /\ ~aborted /\ pc[t] = "walk"
  /\ IF fidx[t] = NULL
       THEN /\ ret' = [ret EXCEPT ![t] = 0]
            /\ pc' = [pc EXCEPT ![t] = "returned"]
            /\ UNCHANGED <<fidx, inst, examined>>
       ELSE LET frame == stack[t][fidx[t]]
                step == FrameStep(frame) IN
            /\ examined' = [examined EXCEPT ![t] = @ \cup {fidx[t]}]
            /\ IF step = "unreadable"
                 THEN /\ ret' = [ret EXCEPT ![t] = 0]
                      /\ pc' = [pc EXCEPT ![t] = "returned"]
                      /\ UNCHANGED <<fidx, inst>>
               ELSE IF step = "skip"
                 THEN /\ fidx' = [fidx EXCEPT ![t] = f_back(stack[t], @)]
                      /\ UNCHANGED <<ret, pc, inst>>
               ELSE   /\ mutex = NoThread
                      /\ inst' = [inst EXCEPT ![t] = getInstance(instance)]
                      /\ IF HasFilter(getInstance(instance))
                           THEN /\ pc' = [pc EXCEPT ![t] = "trace"]
                                /\ UNCHANGED fidx
                           ELSE /\ fidx' = [fidx EXCEPT ![t] = f_back(stack[t], @)]
                                /\ UNCHANGED pc
                      /\ UNCHANGED ret
  /\ UNCHANGED <<initialized, tstate, gil, aborted, rvars, fvars, stack, out,
                 walked, consulted, hit, winst, wgen, q>>

\* py_string_ptr_list->should_trace(filenameStr) and what follows it.
\* A null or deleted object may answer anything.
TraceStep(t) ==
  /\ ~aborted /\ pc[t] = "trace"
  /\ LET frame == stack[t][fidx[t]]
         fn == NameOf(frame) IN
     \E r \in IF inst[t] \in live
                THEN {should_trace(heap[inst[t]], fn).ret}
                ELSE {"true", "false", "abort"} :
       /\ consulted' = [consulted EXCEPT ![t] = @ \cup {fidx[t]}]
       /\ IF r = "abort"
            THEN /\ aborted' = TRUE
                 /\ UNCHANGED <<pc, fidx, out, ret, hit>>
          ELSE IF r = "true"
            THEN /\ out' = [out EXCEPT ![t] = Location(frame)]
                 /\ ret' = [ret EXCEPT ![t] = 1]
                 /\ hit' = [hit EXCEPT ![t] = fidx[t]]
                 /\ pc' = [pc EXCEPT ![t] = "returned"]
                 /\ UNCHANGED <<fidx, aborted>>
          ELSE   /\ fidx' = [fidx EXCEPT ![t] = f_back(stack[t], @)]
                 /\ pc' = [pc EXCEPT ![t] = "walk"]
                 /\ UNCHANGED <<out, ret, hit, aborted>>
  /\ UNCHANGED <<initialized, tstate, gil, rvars, fvars, stack, inst, walked,
                 examined, winst, wgen, q>>

\* The end of the call: ~GIL() releases the GIL if the call took it, the
\* caller takes the result, and the variables of the call go out of scope
Return(t) ==
  /\ ~aborted /\ pc[t] = "returned"
  /\ gil' = IF walked[t] THEN PyGILState_Release(gil, t) ELSE gil
  /\ pc' = [pc EXCEPT ![t] = "idle"]
  /\ stack' = [stack EXCEPT ![t] = <<>>]
  /\ fidx' = [fidx EXCEPT ![t] = NULL]
  /\ inst' = [inst EXCEPT ![t] = NULL]
  /\ walked' = [walked EXCEPT ![t] = FALSE]
  /\ examined' = [examined EXCEPT ![t] = {}]
  /\ consulted' = [consulted EXCEPT ![t] = {}]
  /\ hit' = [hit EXCEPT ![t] = NULL]
  /\ winst' = [winst EXCEPT ![t] = NULL]
  /\ wgen' = [wgen EXCEPT ![t] = 0]
  /\ UNCHANGED <<initialized, tstate, aborted, rvars, fvars, out, ret, q>>

(***************************************************************************)
(* A direct call of should_trace on the installed filter                   *)
(***************************************************************************)
\* The controlling thread, holding the GIL as getPythonInfo does, calls
\* should_trace on the object getInstance returns
ShouldTraceCall ==
  /\ ~aborted /\ rpc = "idle" /\ gil = NoThread /\ mutex = NoThread
  /\ getInstance(instance) # NULL
  /\ gil' = Main
  /\ \E f \in FileNames :
       LET r == should_trace(heap[getInstance(instance)], f) IN
       /\ q' = [called |-> TRUE, fn |-> f, ret |-> r.ret,
                resolved |-> r.resolved, on |-> getInstance(instance)]
       /\ aborted' = (r.ret = "abort")
  /\ UNCHANGED <<initialized, tstate, rvars, fvars, svars>>

\* The caller takes the answer and gives up the GIL
ShouldTraceReturn ==
  /\ ~aborted /\ q.called
  /\ q' = NoQuery
  /\ gil' = NoThread
  /\ UNCHANGED <<initialized, tstate, aborted, rvars, fvars, svars>>

(***************************************************************************)
(* Specifications                                                          *)
(***************************************************************************)
Next ==
  \/ Py_Initialize
  \/ \E t \in Samplers : AttachThread(t)
  \/ RegisterCall(WalkLists, BasePaths, TRUE)
  \/ SetInstanceLock
  \/ SetInstanceDelete
  \/ SetInstanceAssign
  \/ RegisterReturn
  \/ \E t \in Samplers : GetPythonInfoCall(t)
  \/ \E t \in Samplers : AcquireGIL(t)
  \/ \E t \in Samplers : WalkStep(t)
  \/ \E t \in Samplers : TraceStep(t)
  \/ \E t \in Samplers : Return(t)

\* Registrations and samples.  The registrations pass no fragment or the
\* fragment "myproj"; profile_all is read by print() only.
Spec == Init /\ [][Next]_vars

\* The filter alone: registrations with every fragment list and direct
\* calls of should_trace
NextFilter ==
  \/ Py_Initialize
  \/ RegisterCall(ListArgs, BasePathArgs, FALSE)
  \/ SetInstanceLock
  \/ SetInstanceDelete
  \/ SetInstanceAssign
  \/ RegisterReturn
  \/ ShouldTraceCall
  \/ ShouldTraceReturn

SpecFilter == Init /\ [][NextFilter]_vars

(***************************************************************************)
(* Several sampling threads                                                *)
(***************************************************************************)
\* The stacks of the threads that sample side by side
ConcStacks ==
  {<<>>,
   <<Frame(F_app, TRUE, 6, 20)>>,
   <<Frame(F_frag, TRUE, 4, 30)>>,
   <<Frame("/home/u/project/caf.py", FALSE, 4, 50)>>,
   <<Frame(F_lib, TRUE, 2, 10), Frame(F_app, TRUE, 6, 20)>>,
   <<Frame(F_frag, TRUE, 4, 30), Frame(F_app, TRUE, 6, 20)>>}

\* The interpreter is up and both sampling threads are attached to it
InitConc ==
  /\ initialized = TRUE
  /\ tstate = Samplers
  /\ gil = NoThread
  /\ mutex = NoThread
  /\ instance = NULL
  /\ heap = <<>>
  /\ live = {}
  /\ pyerr = FALSE
  /\ aborted = FALSE
  /\ rpc = "idle"
  /\ rargs = NoArgs
  /\ rnew = NULL
  /\ rret = "none"
  /\ rprev = NULL
  /\ pc = [t \in Samplers |-> "idle"]
  /\ stack = [t \in Samplers |-> <<>>]
  /\ fidx = [t \in Samplers |-> NULL]
  /\ inst = [t \in Samplers |-> NULL]
  /\ out = [t \in Samplers |-> Fresh]
  /\ ret = [t \in Samplers |-> 0]
  /\ walked = [t \in Samplers |-> FALSE]
  /\ examined = [t \in Samplers |-> {}]
  /\ consulted = [t \in Samplers |-> {}]
  /\ hit = [t \in Samplers |-> NULL]
  /\ winst = [t \in Samplers |-> NULL]
  /\ wgen = [t \in Samplers |-> 0]
  /\ q = NoQuery

\* What the registering thread does once register_files_to_profile is called
RegisterStep ==
  \/ SetInstanceLock
  \/ SetInstanceDelete
  \/ SetInstanceAssign
  \/ RegisterReturn

\* What thread t does once the GIL is its own
SampleStep(t) ==
  \/ WalkStep(t)
  \/ TraceStep(t)
  \/ Return(t)

NextConc ==
  \/ RegisterCall(WalkLists, BasePaths, TRUE)
  \/ RegisterStep
  \/ \E t \in Samplers : GetPythonInfoCall(t)
  \/ \E t \in Samplers : AcquireOn(t, ConcStacks)
  \/ \E t \in Samplers : SampleStep(t)

\* Two sampling threads and the registering thread, in any order
SpecConc == InitConc /\ [][NextConc]_vars

\* A thread that is running goes on running, and a thread that waits for the
\* GIL gets it if it is free again and again (the interpreter hands the GIL
\* to a waiting thread when the holder gives it up)
Fairness ==
  /\ WF_vars(RegisterStep)
  /\ \A t \in Samplers : WF_vars(SampleStep(t))
  /\ \A t \in Samplers : SF_vars(AcquireOn(t, ConcStacks))

SpecLive == InitConc /\ [][NextConc]_vars /\ Fairness

TypeOK ==
  /\ initialized \in BOOLEAN
  /\ aborted \in BOOLEAN
  /\ gil \in Samplers \cup {Main, NoThread}
  /\ mutex \in {Main, NoThread}
  /\ instance \in 0..MaxRegs + 1
  /\ live \subseteq 1..Len(heap)

(***************************************************************************)
(* Properties                                                              *)
(***************************************************************************)
IsLibrary(f) == strstr(f, "site-packages") \/ strstr(f, "/lib/python")
IsInteractive(f) == FirstCharIs(f, "<") /\ strstr(f, "<ipython")
IsProfiler(f) == strstr(f, "scalene/scalene")
HasFragment(filt, f) ==
  \E i \in 1..Len(filt.items) : strstr(f, filt.items[i])

\* A sample that went past the early return and came back
Returned(t) == pc[t] = "returned" /\ walked[t]
\* A sample whose should_trace call tore the process down
Aborted(t) == aborted /\ pc[t] = "trace"

\* C1: a file name with a library marker ("site-packages" or "/lib/python")
\* is never traceable, whatever the filter's fragments and also when it is an
\* '<'-prefixed "<ipython" name, and the answer is given without calling
\* realpath.
C1_LibraryNeverTraceable ==
  (q.called /\ IsLibrary(q.fn)) => (q.ret = "false" /\ ~q.resolved)

C1_Witness ==
  /\ q.called /\ q.fn = F_lib /\ q.ret = "false"
  /\ IsLibrary(q.fn) /\ HasFragment(heap[q.on], q.fn)

\* C2 as stated: every file name with the profiler's marker "scalene/scalene"
\* is not traceable, '<'-prefixed "<ipython" names included.
C2_Original ==
  (q.called /\ IsProfiler(q.fn)) => q.ret = "false"

\* C2 as amended: a file name with the profiler's marker is not traceable,
\* whatever the fragments and the base path, unless it is an '<'-prefixed
\* "<ipython" name without a library marker, which is traceable.
C2_ProfilerNotTraceable ==
  (q.called /\ IsProfiler(q.fn)) =>
     /\ ~q.resolved
     /\ q.ret = IF IsInteractive(q.fn) /\ ~IsLibrary(q.fn)
                  THEN "true" ELSE "false"

C2_Witness ==
  /\ q.called /\ q.fn = F_self /\ q.ret = "false"
  /\ HasFragment(heap[q.on], q.fn)
  /\ strstr(Realpath(q.fn).path, heap[q.on].scalene_base_path)

\* C3: a registration whose scope argument is not a list returns an error to
\* its caller and leaves the active filter and the live objects as they were.
C3_NonListDoesNotApply ==
  (rpc # "idle" /\ rargs.parsed /\ ~PyList_Check(rargs.a_list)) =>
     /\ ~aborted
     /\ rpc = "ret" /\ rret = "NULL" /\ pyerr
     /\ instance = rprev
     /\ live = (IF rprev = NULL THEN {} ELSE {rprev})

\* C4: a call made while the runtime is not initialized, or on a thread
\* without a thread state, returns 0 with the caller's variables set to
\* ("<BOGUS>", 1, 0).
C4_EarlyReturnSentinel ==
  \A t \in Samplers :
    (pc[t] = "returned" /\ ~walked[t]) =>
       /\ ret[t] = 0
       /\ out[t] = [filename |-> "<BOGUS>", lineno |-> 1, bytei |-> 0]

\* C5: a call that returns 1 returns the innermost frame that passes the
\* test of line 173 and that should_trace accepts: the frames inside it were
\* skipped or not traceable, and no frame outside it was looked at.
C5_InnermostMatch ==
  \A t \in Samplers :
    (Returned(t) /\ ret[t] = 1) =>
       LET s == stack[t]
           h == hit[t] IN
       /\ h \in 1..Len(s)
       /\ winst[t] # NULL
       /\ FrameStep(s[h]) = "consult"
       /\ should_trace(heap[winst[t]], NameOf(s[h])).ret = "true"
       /\ out[t] = [filename |-> s[h].co_filename.str,
                    lineno |-> s[h].co_firstlineno + (s[h].f_lasti \div 2),
                    bytei |-> s[h].f_lasti]
       /\ \A j \in 1..(h - 1) :
            \/ FrameStep(s[j]) = "skip"
            \/ /\ FrameStep(s[j]) = "consult"
               /\ should_trace(heap[winst[t]], NameOf(s[j])).ret = "false"
       /\ examined[t] = 1..h
       /\ consulted[t] \subseteq 1..h

C5_Witness ==
  \E t \in Samplers :
    /\ Returned(t) /\ ret[t] = 1 /\ hit[t] = 2 /\ Len(stack[t]) = 3
    /\ NameOf(stack[t][1]) = F_lib
    /\ NameOf(stack[t][2]) = F_app
    /\ NameOf(stack[t][3]) = F_frag
    /\ should_trace(heap[winst[t]], F_frag).ret = "true"

\* C6: a walk that finds no frame returns 0 with ("<BOGUS>", 1, 0); with no
\* filter installed every walk does so, without calling should_trace and
\* without aborting.
C6_NoMatchSentinel ==
  \A t \in Samplers :
    /\ (Returned(t) /\ ret[t] = 0) =>
          /\ out[t] = [filename |-> "<BOGUS>", lineno |-> 1, bytei |-> 0]
          /\ hit[t] = NULL
    /\ (walked[t] /\ pc[t] \in {"walk", "trace", "returned"}
          /\ winst[t] = NULL) =>
          /\ pc[t] # "trace"
          /\ consulted[t] = {}
          /\ pc[t] = "returned" =>
               /\ ret[t] = 0
               /\ out[t] = [filename |-> "<BOGUS>", lineno |-> 1, bytei |-> 0]
               /\ hit[t] = NULL

C6_Witness ==
  \E t \in Samplers :
    /\ Returned(t) /\ ret[t] = 0 /\ winst[t] = NULL /\ heap = <<>>
    /\ Len(stack[t]) = 2
    /\ NameOf(stack[t][1]) = F_frag
    /\ NameOf(stack[t][2]) = F_app

\* The innermost frame whose file name cannot be decoded, or 0
FirstUndecodable(s) ==
  IF \E i \in 1..Len(s) : ~s[i].co_filename.ascii
    THEN CHOOSE i \in 1..Len(s) :
           /\ ~s[i].co_filename.ascii
           /\ \A j \in 1..(i - 1) : s[j].co_filename.ascii
    ELSE 0

\* C7: the walk stops at the first frame whose file name cannot be decoded
\* and returns 0 with ("<BOGUS>", 1, 0); no frame outside it is looked at, and
\* a frame that is returned lies inside it.
C7_UndecodableStops ==
  \A t \in Samplers :
    LET u == FirstUndecodable(stack[t]) IN
    (walked[t] /\ u # 0) =>
       /\ examined[t] \subseteq 1..u
       /\ consulted[t] \subseteq 1..(u - 1)
       /\ (pc[t] = "returned" /\ ret[t] = 1) => hit[t] < u
       /\ (pc[t] = "returned" /\ u \in examined[t]) =>
             /\ ret[t] = 0
             /\ out[t] = [filename |-> "<BOGUS>", lineno |-> 1, bytei |-> 0]

C7_Witness ==
  \E t \in Samplers :
    /\ Returned(t) /\ ret[t] = 0 /\ Len(stack[t]) = 2
    /\ FirstUndecodable(stack[t]) = 1
    /\ NameOf(stack[t][2]) = F_app
    /\ winst[t] # NULL
    /\ should_trace(heap[winst[t]], F_app).ret = "true"
    /\ examined[t] = {1}

\* The stack without its frames of empty file name
RemoveEmpty(s) ==
  SelectSeq(s, LAMBDA f : ~(f.co_filename.ascii /\ f.co_filename.str = ""))

IsEmptyNamed(f) == f.co_filename.ascii /\ f.co_filename.str = ""

\* What the call of thread t came to: the value returned (-1 for abort) and
\* the caller's variables
Outcome(t) ==
  IF Aborted(t) THEN [ret |-> -1, out |-> out[t]]
                ELSE [ret |-> ret[t], out |-> out[t]]

\* C8: a frame of empty file name is skipped: it is not returned, does not
\* end the walk and is not shown to the filter, and the call comes to what it
\* comes to on the stack without such frames.
C8_EmptySkipped ==
  \A t \in Samplers :
    (Returned(t) \/ Aborted(t)) =>
       LET s == stack[t]
           r == RemoveEmpty(s) IN
       /\ \A i \in examined[t] :
            IsEmptyNamed(s[i]) =>
               /\ i \notin consulted[t]
               /\ hit[t] # i
               /\ i < Len(s) => (i + 1) \in examined[t]
       /\ Outcome(t) =
            Walk(r, PyEval_GetFrame(r), winst[t] # NULL,
                 IF winst[t] # NULL THEN heap[winst[t]] ELSE <<>>)

C8_Witness ==
  \E t \in Samplers :
    /\ Returned(t) /\ ret[t] = 1 /\ hit[t] = 3
    /\ IsEmptyNamed(stack[t][1])
    /\ IsEmptyNamed(stack[t][2])
    /\ NameOf(stack[t][3]) = F_app

\* C9: after registrations that ended with filter B, _instance is B, B is the
\* only live object and holds the fragments and the base path B was
\* registered with, and a walk comes to what B alone decides.
C9_LastRegistrationOnly ==
  /\ (rpc = "idle" /\ Len(heap) > 0) =>
        /\ instance = Len(heap)
        /\ live = {Len(heap)}
  /\ (rpc = "ret" /\ rret = "None") =>
        /\ instance = Len(heap)
        /\ heap[instance].items = rargs.a_list.elems
        /\ heap[instance].scalene_base_path = rargs.base_path
  /\ \A t \in Samplers :
       (Returned(t) \/ Aborted(t)) =>
          Outcome(t) =
            Walk(stack[t], PyEval_GetFrame(stack[t]), wgen[t] > 0,
                 IF wgen[t] > 0 THEN heap[wgen[t]] ELSE <<>>)

C9_Witness ==
  \E t \in Samplers :
    /\ Returned(t) /\ ret[t] = 0 /\ wgen[t] = 2 /\ Len(heap) = 2
    /\ Len(stack[t]) = 1 /\ NameOf(stack[t][1]) = F_app
    /\ should_trace(heap[1], F_app).ret = "true"
    /\ should_trace(heap[2], F_app).ret = "false"

\* C10: a file name that is no library file, no interactive source and no
\* file of the profiler, and that contains a fragment of the filter, is
\* traceable, and realpath is not called for it.
C10_FragmentShortCircuits ==
  (/\ q.called
   /\ ~IsLibrary(q.fn) /\ ~IsInteractive(q.fn) /\ ~IsProfiler(q.fn)
   /\ HasFragment(heap[q.on], q.fn)) =>
     (q.ret = "true" /\ ~q.resolved)

C10_Witness ==
  /\ q.called /\ q.fn = F_frag /\ q.ret = "true"
  /\ HasFragment(heap[q.on], q.fn)
  /\ ~Realpath(q.fn).ok
  /\ ~strstr(q.fn, heap[q.on].scalene_base_path)

\* A file name that none of the first four rules of filt decides
ReachesRealpath(filt, f) ==
  ~IsLibrary(f) /\ ~IsInteractive(f) /\ ~IsProfiler(f) /\ ~HasFragment(filt, f)

\* C11: a file name that none of the first four rules decides and that
\* realpath resolves is traceable exactly when the resolved path contains the
\* base path; the file name as given does not count.
C11_BasePathOnResolved ==
  (/\ q.called
   /\ ReachesRealpath(heap[q.on], q.fn)
   /\ Realpath(q.fn).ok) =>
     /\ q.resolved
     /\ q.ret = IF strstr(Realpath(q.fn).path, heap[q.on].scalene_base_path)
                  THEN "true" ELSE "false"

C11_Witness ==
  /\ q.called /\ q.fn = F_link /\ q.ret = "true" /\ q.resolved
  /\ ReachesRealpath(heap[q.on], q.fn)
  /\ ~strstr(q.fn, heap[q.on].scalene_base_path)
  /\ strstr(Realpath(q.fn).path, heap[q.on].scalene_base_path)

\* Frame i of the walk of thread t is one should_trace cannot resolve
Fatal(t, i) ==
  /\ ~Realpath(NameOf(stack[t][i])).ok
  /\ FrameStep(stack[t][i]) = "consult"
  /\ ReachesRealpath(heap[winst[t]], NameOf(stack[t][i]))

NotRepresentable ==
  /\ rpc # "idle" /\ rargs.parsed /\ PyList_Check(rargs.a_list)
  /\ \/ rargs.base_path \in NonASCII
     \/ \E i \in 1..Len(rargs.a_list.elems) : rargs.a_list.elems[i] \in NonASCII

\* C13: a registration whose fragment list or base path has an entry with no
\* ASCII encoding fails as a whole: the call comes back with the error, no
\* filter is made from it, and the filter active before stays active in a
\* process that goes on.
C13_ConstructionFailsAsAWhole ==
  NotRepresentable =>
     /\ ~aborted
     /\ rpc = "ret" /\ rret = "NULL" /\ pyerr
     /\ instance = rprev
     /\ live \subseteq {rprev}

\* C15 as stated: in every state at most one filter object is constructed
\* and not yet destroyed.
C15_Original == Cardinality(live) <= 1

\* C15: the argument of setInstance is constructed before setInstance deletes
\* the object _instance points to, so two objects are live from the end of
\* the constructor to the delete, in the registering thread and under the
\* GIL.  Outside that window at most one is live, the one _instance points
\* to, and a registration that has stored its object has destroyed the one
\* before it.
C15_AtMostOneInstalled ==
  /\ Cardinality(live) <= 2
  /\ Cardinality(live) = 2 =>
       /\ rpc \in {"lock", "delete"} /\ gil = Main
       /\ live = {instance, rnew} /\ rprev = instance
  /\ rpc \notin {"lock", "delete"} =>
       live \subseteq {IF rpc = "assign" THEN rnew ELSE instance}
  /\ (rpc = "ret" /\ rret = "None") =>
       (instance = rnew /\ live = {rnew} /\ rprev \notin live)

C15_Witness ==
  /\ rpc = "ret" /\ rret = "None" /\ rprev = 1 /\ rnew = 2
  /\ instance = 2 /\ live = {2}

\* C16: a call that passed the test of line 145 holds the GIL from the
\* declaration of gil to the end of the call, on whichever return statement
\* it leaves, so each look at a frame is made under the GIL; once the call is
\* over the thread is without the GIL, as it was before the call.
C16_LockHeldForWholeWalk ==
  \A t \in Samplers :
    /\ (walked[t] /\ pc[t] \in {"walk", "trace", "returned"}) => gil = t
    /\ (examined[t] # {} \/ consulted[t] # {}) => gil = t
    /\ pc[t] \in {"off", "idle", "gil"} => gil # t
    /\ (pc[t] = "returned" /\ ~walked[t]) => gil # t

C16_Witness ==
  \E t \in Samplers :
    /\ pc[t] = "idle" /\ gil = NoThread
    /\ ret[t] = 0 /\ out[t] = Bogus

\* C14: whatever the order of the steps of the registering thread and of the
\* sampling threads, the object a sample got from getInstance is live while
\* should_trace runs on it: it is the one _instance pointed to when the walk
\* began and still points to, although _instanceMutex was given up before
\* the call.
C14_FilterNeverDestroyedInUse ==
  \A t \in Samplers :
    pc[t] = "trace" =>
       /\ inst[t] \in live
       /\ inst[t] = instance /\ inst[t] = winst[t]
       /\ mutex = NoThread

C14_Witness ==
  \E t \in Samplers, u \in Samplers :
    /\ t # u
    /\ pc[t] = "trace" /\ inst[t] = 2 /\ live = {2}
    /\ pc[u] = "gil"
    /\ ret[u] = 0 /\ out[u] = Bogus

\* The threads inside a walk, and the registering thread inside a replacement
InWalk == {t \in Samplers : walked[t] /\ pc[t] \in {"walk", "trace", "returned"}}
InReplacement == IF rpc \in {"new", "lock", "delete", "assign", "ret"}
                   THEN {Main} ELSE {}

\* C17: with two sampling threads and the registering thread at work, at
\* most one thread is inside a walk or a replacement of the filter at a time,
\* and that thread is the holder of the GIL.
C17_MutualExclusion ==
  /\ Cardinality(InWalk \cup InReplacement) <= 1
  /\ \A t \in InWalk \cup InReplacement : gil = t

C17_Witness ==
  /\ InWalk = {"s1"} /\ pc["s1"] = "trace"
  /\ pc["s2"] = "gil"
  /\ Len(heap) = 1 /\ rpc = "idle"

\* C18: with the threads scheduled fairly, a call that waits for the GIL gets
\* to its return or the process is aborted; a turn of the loop that goes on
\* goes to a frame further out, so no frame is looked at twice; and the
\* holder of _instanceMutex is the holder of the GIL, so no thread waits for
\* the GIL with _instanceMutex in hand.
C18_EveryCallEnds ==
  /\ \A t \in Samplers :
       (pc[t] = "gil") ~> (pc[t] = "returned" \/ aborted)
  /\ [][\A t \in Samplers :
          (/\ pc[t] \in {"walk", "trace"} /\ pc'[t] = "walk"
           /\ <<pc[t], examined[t]>> # <<pc'[t], examined'[t]>>) =>
             (fidx[t] # NULL /\ (fidx'[t] = NULL \/ fidx'[t] > fidx[t]))]_vars
  /\ [](mutex # NoThread => gil = mutex)

C18_Witness ==
  /\ pc["s1"] = "returned" /\ walked["s1"] /\ ret["s1"] = 1
  /\ examined["s1"] = {1, 2} /\ Len(stack["s1"]) = 2
  /\ pc["s2"] = "gil"

\* C19: a file name that getPythonInfo passes over without asking the filter
\* (it contains "<", "/python" or "scalene/scalene") is one should_trace
\* answers false for, so the test of line 173 loses no traceable frame.
C19_CheapTestIsShortcut ==
  (q.called /\ Len(q.fn) > 0 /\ ~PassesCheapTest(q.fn)) => q.ret = "false"
====
